---- MODULE Spec2Model ----
(***************************************************************************)
(* A model of app.py: a CSV-backed lookup / edit / create tool.            *)
(*                                                                         *)
(* Cell values and queries are sequences of one-character strings, so that *)
(* strip, casefold, regular-expression search and the NA handling of       *)
(* read_csv are computed rather than assumed.  Column names are strings;   *)
(* str.lower is tabulated on the names the model uses.                     *)
(*                                                                         *)
(* A DataFrame is [cols, rows]: cols the ordered column names, rows a      *)
(* sequence of functions from column name to cell; pandas row label k is   *)
(* rows[k+1].  A file is [exists, header, records] with positional         *)
(* records, the content of a CSV document.  Every document of the model    *)
(* has at least two columns and distinct header names, so neither          *)
(* read_csv's blank-line skipping nor its renaming of duplicate headers    *)
(* applies.                                                                *)
(***************************************************************************)
EXTENDS Integers, Sequences, FiniteSets, TLC

\* ------------------------------------------------------------ configuration

CSV_PATH == "companies.csv"

SEARCH_COL_NAME == "Company"

\* The first three of the twelve desired columns that matter to the logic:
\* one that is the search column, one spelled in lower case, one other.
DESIRED_COLS == <<"Company", "state", "Notes">>

\* ------------------------------------------------------------------ strings

Range(s) == {s[i] : i \in DOMAIN s}

\* str.lower on the column names of the model.
Lower(name) ==
    CASE name \in {"Company", "COMPANY", "company"} -> "company"
      [] name \in {"state", "State", "STATE"} -> "state"
      [] name \in {"Notes", "notes"} -> "notes"
      [] name \in {"Extra", "extra"} -> "extra"
      [] name \in {"Maß", "maß"} -> "maß"
      [] OTHER -> name

casefold_char(c) ==
    CASE c = "A" -> "a"
      [] c = "B" -> "b"
      [] c = "N" -> "n"
      [] OTHER -> c

casefold(s) == [i \in 1..Len(s) |-> casefold_char(s[i])]

RECURSIVE lstrip(_)
lstrip(s) == IF s # <<>> /\ Head(s) = " " THEN lstrip(Tail(s)) ELSE s

RECURSIVE rstrip(_)
rstrip(s) ==
    IF s # <<>> /\ s[Len(s)] = " " THEN rstrip(SubSeq(s, 1, Len(s) - 1)) ELSE s

strip(s) == rstrip(lstrip(s))

\* re.search(pat, value, re.IGNORECASE) for patterns over the model's
\* alphabet: "." matches any one character, every other character itself.
regex_match_at(value, pat, k) ==
    /\ k + Len(pat) - 1 <= Len(value)
    /\ \A j \in 1..Len(pat) :
          \/ pat[j] = "."
          \/ casefold_char(pat[j]) = casefold_char(value[k + j - 1])

str_contains(value, pat) ==
    \E k \in 1..(Len(value) + 1) : regex_match_at(value, pat, k)

\* ------------------------------------------------------------------- tables

EmptyDF == [cols |-> <<>>, rows |-> <<>>]

HasCol(df, c) == c \in Range(df.cols)

\* df[c] = v : a scalar broadcast to every row; a new column goes last.
SetCol(df, c, v) ==
    [cols |-> IF HasCol(df, c) THEN df.cols ELSE Append(df.cols, c),
     rows |-> [k \in 1..Len(df.rows) |->
                 [x \in Range(df.cols) \cup {c} |->
                     IF x = c THEN v ELSE df.rows[k][x]]]]

\* The mutant of SetCell: df.loc[idx] = v, the value assigned to the whole row.
SetCell_whole_row(df, idx, c, v) ==
    [df EXCEPT !.rows[idx + 1] = [x \in DOMAIN @ |-> v]]

\* df.loc[idx, c] = v for a row label and a column that exist.
SetCell(df, idx, c, v) ==
    [df EXCEPT !.rows[idx + 1][c] = v]

\* The mutant of InIndex: the label tested against the rows there were when
\* the record was chosen, that is, not against the reloaded table at all.
InIndex_not_reloaded(df, idx) == idx >= 0

\* idx in df.index, the RangeIndex read_csv and concat(ignore_index) give.
InIndex(df, idx) == idx >= 0 /\ idx < Len(df.rows)

\* ---------------------------------------------------------------- CSV files

Absent == [exists |-> FALSE, header |-> <<>>, records |-> <<>>]

\* The strings of the model's alphabet that read_csv takes for missing
\* values (its default na_values; dtype=str does not switch that off).
NAValues == {<<>>, <<"N", "A">>, <<"n", "a", "n">>, <<"N", "a", "N">>}

\* The mutant of to_csv: the table is cut to the desired columns before it is
\* written, as the view shown to the user is.
to_csv_desired_only(df) ==
    LET wanted(c) == \E i \in 1..Len(DESIRED_COLS) : Lower(DESIRED_COLS[i]) = Lower(c)
        kept == SelectSeq(df.cols, wanted)
    IN  [exists |-> TRUE,
         header |-> kept,
         records |-> [k \in 1..Len(df.rows) |->
                        [j \in 1..Len(kept) |-> df.rows[k][kept[j]]]]]

\* df.to_csv(path, index=False): the header, then one record per row.
to_csv(df) ==
    [exists |-> TRUE,
     header |-> df.cols,
     records |-> [k \in 1..Len(df.rows) |->
                    [j \in 1..Len(df.cols) |-> df.rows[k][df.cols[j]]]]]

\* pd.read_csv(path, dtype=str).fillna("") of an existing file.
read_csv(doc) ==
    [cols |-> doc.header,
     rows |-> [k \in 1..Len(doc.records) |->
                 [c \in Range(doc.header) |->
                    LET j == CHOOSE i \in 1..Len(doc.header) : doc.header[i] = c
                        field == doc.records[k][j]
                    IN  IF field \in NAValues THEN <<>> ELSE field]]]

\* --------------------------------------------------------- column resolution

\* {c.lower(): c for c in df.columns}: the last column of a key wins.
MakeColMap(cols) ==
    [key \in {Lower(c) : c \in Range(cols)} |->
        LET last == CHOOSE i \in 1..Len(cols) :
                       /\ Lower(cols[i]) = key
                       /\ \A j \in (i + 1)..Len(cols) : Lower(cols[j]) # key
        IN  cols[last]]

\* col_map.get(key, default)
MapGet(col_map, key, default) ==
    IF key \in DOMAIN col_map THEN col_map[key] ELSE default

\* col_map[key] = value
MapPut(col_map, key, value) ==
    [k \in DOMAIN col_map \cup {key} |-> IF k = key THEN value ELSE col_map[k]]

\* The mutant of ensure_columns: the return statement indented into the loop
\* body, so the call returns after the first desired column it looks at.
RECURSIVE ensure_columns_return_in_loop(_, _, _)
ensure_columns_return_in_loop(df, want_display_cols, col_map) ==
    IF want_display_cols = <<>> THEN [df |-> df, col_map |-> col_map]
    ELSE LET display == Head(want_display_cols)
             key == Lower(display)
         IN  IF key \notin DOMAIN col_map
             THEN [df |-> SetCol(df, display, <<>>),
                   col_map |-> MapPut(col_map, Lower(display), display)]
             ELSE ensure_columns_return_in_loop(df, Tail(want_display_cols), col_map)

\* Another mutant of ensure_columns: col_map[display] = display, the column
\* registered under its name as displayed.
RECURSIVE ensure_columns_key_as_displayed(_, _, _)
ensure_columns_key_as_displayed(df, want_display_cols, col_map) ==
    IF want_display_cols = <<>> THEN [df |-> df, col_map |-> col_map]
    ELSE LET display == Head(want_display_cols)
             key == Lower(display)
         IN  IF key \notin DOMAIN col_map
             THEN ensure_columns_key_as_displayed(SetCol(df, display, <<>>),
                                                  Tail(want_display_cols),
                                                  MapPut(col_map, display, display))
             ELSE ensure_columns_key_as_displayed(df, Tail(want_display_cols), col_map)

RECURSIVE ensure_columns(_, _, _)
ensure_columns(df, want_display_cols, col_map) ==
    IF want_display_cols = <<>> THEN [df |-> df, col_map |-> col_map]
    ELSE LET display == Head(want_display_cols)
             key == Lower(display)
         IN  IF key \notin DOMAIN col_map
             THEN ensure_columns(SetCol(df, display, <<>>),
                                 Tail(want_display_cols),
                                 MapPut(col_map, Lower(display), display))
             ELSE ensure_columns(df, Tail(want_display_cols), col_map)

\* The mutant of DisplayToActual: every display name mapped to itself.
DisplayToActual_identity(col_map) ==
    [d \in Range(DESIRED_COLS) |-> d]

\* {d: col_map.get(d.lower(), d) for d in DESIRED_COLS}
DisplayToActual(col_map) ==
    [d \in Range(DESIRED_COLS) |-> MapGet(col_map, Lower(d), d)]

\* The result of a load that stopped the session (st.error, st.stop).
LoadFatal ==
    [ok |-> FALSE, df |-> EmptyDF, search_col |-> "", resolved_cols |-> <<>>,
     rename_map |-> <<>>, missing |-> <<>>, col_map |-> <<>>,
     display_to_actual |-> <<>>]

\* The body of load_data, on the content of the file at path.
load_data(doc) ==
    IF ~doc.exists THEN LoadFatal
    ELSE
      LET df == read_csv(doc)
          col_map == MakeColMap(df.cols)
          found(d) == Lower(d) \in DOMAIN col_map
          present == SelectSeq(DESIRED_COLS, found)
          resolved == [i \in 1..Len(present) |-> col_map[Lower(present[i])]]
          renamed == {i \in 1..Len(present) : resolved[i] # present[i]}
      IN  IF Lower(SEARCH_COL_NAME) \notin DOMAIN col_map THEN LoadFatal
          ELSE [ok |-> TRUE,
                df |-> df,
                search_col |-> col_map[Lower(SEARCH_COL_NAME)],
                resolved_cols |-> resolved,
                rename_map |-> [a \in {resolved[i] : i \in renamed} |->
                                   present[CHOOSE i \in renamed : resolved[i] = a]],
                missing |-> SelectSeq(DESIRED_COLS, LAMBDA d : ~found(d)),
                col_map |-> col_map,
                display_to_actual |-> DisplayToActual(col_map)]

\* -------------------------------------------------------------------- search

\* The mask of the search, for one row's value of the search column.
search_mask(value, query, mode) ==
    LET q == strip(query)
    IN  IF mode = "Exact"
        THEN casefold(strip(value)) = casefold(q)
        ELSE str_contains(value, q)

\* results = df.loc[mask]: the rows of the mask with their labels, in order.
search(df, search_col, query, mode) ==
    LET labelled == [k \in 1..Len(df.rows) |-> [idx |-> k - 1, row |-> df.rows[k]]]
        hit(r) == search_mask(r.row[search_col], query, mode)
    IN  SelectSeq(labelled, hit)

\* ===================================================================== state

VARIABLES
    file,         \* the content of the file at CSV_PATH
    last_writer,  \* who replaced the file last: "session", "other", "none" (history)
    cache,        \* st.cache_data: the cached load_data result
    pc,           \* where the session is: "start", "ready", "write"
    query,        \* the query box
    chosen_idx,   \* the row label the session selected, -1 when none
    op,           \* the form the session submitted: "edit", "create", "none"
    inputs,       \* the form values as submitted
    enforce,      \* the enforce_unique checkbox as submitted
    fresh,        \* the load_data result of the handler's reload
    df_fresh,     \* the table the handler built and hands to atomic_write_csv
    outcome,      \* how the handler ended
    row_deleted,  \* a row left the file since the selection (history)
    n_ops,        \* the forms submitted so far
    other_wrote,  \* another program has written the file
    other_change, \* the cell another program changed, and when (history)
    s_pc,         \* the search on its own: "start", "stopped" or "shown"
    s_loaded,     \* the load_data result the search ran on
    s_query,      \* the query of the search
    s_mode,       \* the mode of the search
    s_results,    \* results, the rows of the mask with their labels
    w_pc,         \* atomic_write_csv: the statement it is at
    w_df,         \* atomic_write_csv: its argument df
    w_old,        \* the content of path when atomic_write_csv was called (history)
    w_tmp,        \* the temporary file of mkstemp
    w_n,          \* how many chunks to_csv has written: the header, then rows
    w_exc,        \* the call that raised, "none" when none did
    w_loaded,     \* the load_data result after the write
    ec_want,      \* ensure_columns: the desired columns it is called with
    ec_in,        \* ensure_columns: the df and col_map of the first call
    ec_first,     \* what the first call returned
    ec_cur,       \* what the latest call returned
    ec_calls,     \* how many calls were made
    l_pc,         \* the load on its own: "start", "stopped" or "loaded"
    l_loaded      \* what load_data returned

appVars == <<last_writer, cache, pc, query, chosen_idx, op,
             inputs, enforce, fresh, df_fresh, outcome, row_deleted, n_ops,
             other_wrote, other_change>>
writeVars == <<w_pc, w_df, w_old, w_tmp, w_n, w_exc, w_loaded>>
colsVars == <<ec_want, ec_in, ec_first, ec_cur, ec_calls>>
searchVars == <<s_pc, s_loaded, s_query, s_mode, s_results>>
loadVars == <<l_pc, l_loaded>>
vars == <<file, appVars, writeVars, colsVars, searchVars, loadVars>>

\* ------------------------------------------------------------------- bounds

\* The rows a file of the application model holds at most.
MaxRows == 2
\* The forms submitted in one run of the application model.
MaxOps == 1
\* The rows of a table handed to atomic_write_csv on its own.
MaxWriteRows == 2
\* The rows of a file the search runs on, on its own.
MaxSearchRows == 2
\* The rows of a table handed to ensure_columns on its own.
MaxColsRows == 1
\* The calls of ensure_columns in a row.
MaxEnsureCalls == 2

\* All tables of n rows over the columns cols with cells from cells.
TablesOf(cols, n, cells) ==
    {[cols |-> cols, rows |-> r] : r \in [1..n -> [Range(cols) -> cells]]}

\* All restrictions of a function to a subset of its domain.
Restrictions(f) == {[k \in ks |-> f[k]] : ks \in SUBSET DOMAIN f}

\* -------------------------------------------------- the session, not started

NoCache == [valid |-> FALSE, val |-> LoadFatal]
NoInputs == [d \in Range(DESIRED_COLS) |-> <<>>]
NoChange == [at |-> "none", k |-> 0, c |-> "", v |-> <<>>, cached |-> FALSE]

AppParked ==
    /\ last_writer = "none"
    /\ cache = NoCache
    /\ pc = "start"
    /\ query = <<>>
    /\ chosen_idx = -1
    /\ op = "none"
    /\ inputs = NoInputs
    /\ enforce = FALSE
    /\ fresh = LoadFatal
    /\ df_fresh = EmptyDF
    /\ outcome = "none"
    /\ row_deleted = FALSE
    /\ n_ops = 0
    /\ other_wrote = FALSE
    /\ other_change = NoChange

WriteParked ==
    /\ w_pc = "off"
    /\ w_df = EmptyDF
    /\ w_old = Absent
    /\ w_tmp = Absent
    /\ w_n = 0
    /\ w_exc = "none"
    /\ w_loaded = LoadFatal

ColsParked ==
    /\ ec_want = <<>>
    /\ ec_in = [df |-> EmptyDF, col_map |-> <<>>]
    /\ ec_first = [df |-> EmptyDF, col_map |-> <<>>]
    /\ ec_cur = [df |-> EmptyDF, col_map |-> <<>>]
    /\ ec_calls = 0

SearchParked ==
    /\ s_pc = "off"
    /\ s_loaded = LoadFatal
    /\ s_query = <<>>
    /\ s_mode = "Exact"
    /\ s_results = <<>>

LoadParked ==
    /\ l_pc = "off"
    /\ l_loaded = LoadFatal

\* =========================================================== atomic_write_csv
\* One call of atomic_write_csv(path, df), statement by statement, with the
\* failures of its calls and a crash of the process, then an uncached load.

WriteCells == {<<>>, <<"a">>, <<"N", "A">>}

WriteTables ==
    UNION {TablesOf(<<"Company", "Extra">>, n, WriteCells) : n \in 0..MaxWriteRows}

OldDocs ==
    {Absent,
     [exists |-> TRUE, header |-> <<"Company", "Extra">>,
      records |-> << <<(<<"b">>), (<<"b">>)>> >>],
     [exists |-> TRUE, header |-> <<"company", "state">>, records |-> <<>>]}

\* The file mkstemp creates: it exists and is empty.
EmptyFile == [exists |-> TRUE, header |-> <<>>, records |-> <<>>]

\* What a file holds after n chunks of doc went into it.
Chunks(doc, n) ==
    IF n = 0 THEN EmptyFile
    ELSE [exists |-> TRUE, header |-> doc.header,
          records |-> SubSeq(doc.records, 1, n - 1)]

NumChunks(doc) == Len(doc.records) + 1

WriteInit ==
    /\ file \in OldDocs
    /\ w_df \in WriteTables
    /\ w_old = file
    /\ w_pc = "mkstemp"
    /\ w_tmp = Absent
    /\ w_n = 0
    /\ w_exc = "none"
    /\ w_loaded = LoadFatal
    /\ AppParked
    /\ ColsParked
    /\ SearchParked
    /\ LoadParked

\* fd, tmp_path = tempfile.mkstemp(...); os.close(fd)
W_mkstemp ==
    /\ w_pc = "mkstemp"
    /\ w_tmp' = EmptyFile
    /\ w_pc' = "to_csv"
    /\ UNCHANGED <<file, w_df, w_old, w_n, w_exc, w_loaded, appVars, colsVars, searchVars, loadVars>>

\* mkstemp raises: the call is outside the try block.
W_mkstemp_fails ==
    /\ w_pc = "mkstemp"
    /\ w_exc' = "mkstemp"
    /\ w_pc' = "raised"
    /\ UNCHANGED <<file, w_df, w_old, w_tmp, w_n, w_loaded, appVars, colsVars, searchVars, loadVars>>

\* The mutant of W_to_csv: df.to_csv(path), the table written in place.
W_to_csv_in_place ==
    /\ w_pc = "to_csv"
    /\ w_n' = w_n + 1
    /\ file' = Chunks(to_csv(w_df), w_n + 1)
    /\ w_pc' = IF w_n + 1 = NumChunks(to_csv(w_df)) THEN "replace" ELSE "to_csv"
    /\ UNCHANGED <<w_tmp, w_df, w_old, w_exc, w_loaded, appVars, colsVars, searchVars, loadVars>>

\* df.to_csv(tmp_path, index=False), one chunk at a time.
W_to_csv ==
    /\ w_pc = "to_csv"
    /\ w_n' = w_n + 1
    /\ w_tmp' = Chunks(to_csv(w_df), w_n + 1)
    /\ w_pc' = IF w_n + 1 = NumChunks(to_csv(w_df)) THEN "replace" ELSE "to_csv"
    /\ UNCHANGED <<file, w_df, w_old, w_exc, w_loaded, appVars, colsVars, searchVars, loadVars>>

\* to_csv raises after any number of chunks: control goes to finally.
W_to_csv_fails ==
    /\ w_pc = "to_csv"
    /\ w_exc' = "to_csv"
    /\ w_pc' = "finally"
    /\ UNCHANGED <<file, w_df, w_old, w_tmp, w_n, w_loaded, appVars, colsVars, searchVars, loadVars>>

\* os.replace(tmp_path, path): the temporary file becomes the file at path.
W_replace ==
    /\ w_pc = "replace"
    /\ file' = w_tmp
    /\ w_tmp' = Absent
    /\ w_pc' = "finally"
    /\ UNCHANGED <<w_df, w_old, w_n, w_exc, w_loaded, appVars, colsVars, searchVars, loadVars>>

\* os.replace raises (the rename is refused): control goes to finally.
W_replace_fails ==
    /\ w_pc = "replace"
    /\ w_exc' = "replace"
    /\ w_pc' = "finally"
    /\ UNCHANGED <<file, w_df, w_old, w_tmp, w_n, w_loaded, appVars, colsVars, searchVars, loadVars>>

\* The mutant of W_finally: the cleanup left out, the call ends where the try
\* block ended.
W_finally_no_remove ==
    /\ w_pc = "finally"
    /\ w_pc' = IF w_exc = "none" THEN "returned" ELSE "raised"
    /\ UNCHANGED <<file, w_df, w_old, w_tmp, w_n, w_exc, w_loaded, appVars, colsVars, searchVars, loadVars>>

\* finally: if os.path.exists(tmp_path): os.remove(tmp_path), the removal
\* taken to succeed.
W_finally ==
    /\ w_pc = "finally"
    /\ w_tmp' = Absent
    /\ w_pc' = IF w_exc = "none" THEN "returned" ELSE "raised"
    /\ UNCHANGED <<file, w_df, w_old, w_n, w_exc, w_loaded, appVars, colsVars, searchVars, loadVars>>

\* The process dies inside the call: nothing after that statement runs.
W_crash ==
    /\ w_pc \in {"to_csv", "replace", "finally"}
    /\ w_pc' = "crashed"
    /\ UNCHANGED <<file, w_df, w_old, w_tmp, w_n, w_exc, w_loaded, appVars, colsVars, searchVars, loadVars>>

\* st.cache_data.clear(); load_data(path) after the write returned.
W_load ==
    /\ w_pc = "returned"
    /\ w_loaded' = load_data(file)
    /\ w_pc' = "loaded"
    /\ UNCHANGED <<file, w_df, w_old, w_tmp, w_n, w_exc, appVars, colsVars, searchVars, loadVars>>

WriteNext ==
    \/ W_mkstemp
    \/ W_mkstemp_fails
    \/ W_to_csv
    \/ W_to_csv_fails
    \/ W_replace
    \/ W_replace_fails
    \/ W_finally
    \/ W_crash
    \/ W_load

SpecWrite == WriteInit /\ [][WriteNext]_vars

C10_RoundTrip ==
    w_pc = "loaded" =>
        /\ w_loaded.ok
        /\ Len(w_loaded.df.rows) = Len(w_df.rows)
        /\ \A k \in 1..Len(w_df.rows) : \A c \in Range(w_df.cols) :
              w_loaded.df.rows[k][c] = w_df.rows[k][c]

ColsHeaders ==
    {<<"Company", "Extra">>, <<"company", "State">>,
     <<"Extra", "COMPANY", "Notes">>, <<"Company", "state", "Notes">>}

ColsCells == {<<>>, <<"a">>}

ColsTables ==
    UNION {TablesOf(h, n, ColsCells) : h \in ColsHeaders, n \in 0..MaxColsRows}

ColsWants ==
    {DESIRED_COLS, <<"state", "Company">>, <<"Notes">>, <<"State", "state">>}

ColsInit ==
    /\ ec_want \in ColsWants
    /\ \E df \in ColsTables : \E h \in ColsHeaders :
          \E m \in Restrictions(MakeColMap(h)) :
             ec_in = [df |-> df, col_map |-> m]
    /\ ec_first = ec_in
    /\ ec_cur = ec_in
    /\ ec_calls = 0
    /\ file = Absent
    /\ AppParked
    /\ WriteParked
    /\ SearchParked
    /\ LoadParked

\* df, col_map = ensure_columns(df, want_display_cols, col_map)
EC_call ==
    /\ ec_calls < MaxEnsureCalls
    /\ ec_cur' = ensure_columns(ec_cur.df, ec_want, ec_cur.col_map)
    /\ ec_first' = IF ec_calls = 0 THEN ec_cur' ELSE ec_first
    /\ ec_calls' = ec_calls + 1
    /\ UNCHANGED <<file, ec_want, ec_in, appVars, writeVars, searchVars, loadVars>>

ColsNext == EC_call

SpecCols == ColsInit /\ [][ColsNext]_vars

\* C9: calling ensure_columns again on what it returned returns the same
\* table (columns, their order, the cells) and the same column map.
C9_Idempotent ==
    ec_calls >= 2 => ec_cur = ec_first

\* C9's case: the first call added two columns, and a second call was made.
C9_Witness ==
    /\ ec_calls = 2
    /\ Len(ec_first.df.cols) = Len(ec_in.df.cols) + 2
    /\ Len(ec_first.df.rows) > 0

\* ================================================================== load_data
\* load_data on any file, then ensure_columns on what it returned, again and
\* again, as the handlers call them (lines 184 to 187).

\* The headers of the files: all desired columns; other spellings; no search
\* column; two columns that differ in case only; a name whose lower-case
\* form is not its casefolded form.
LoadHeaders ==
    {<<"Company", "state", "Notes">>, <<"company", "Extra">>,
     <<"Extra", "State">>, <<"STATE", "Company">>,
     <<"COMPANY", "company">>, <<"Notes", "Company", "Maß">>}

LoadCells == {<<>>, <<"a">>, <<"b">>}

LoadFiles ==
    {Absent} \cup
    UNION {{[exists |-> TRUE, header |-> h, records |-> r] :
               r \in [1..n -> [1..Len(h) -> LoadCells]]} :
           h \in LoadHeaders, n \in 0..MaxColsRows}

LoadInit ==
    /\ file \in LoadFiles
    /\ l_pc = "start"
    /\ l_loaded = LoadFatal
    /\ ec_want = DESIRED_COLS
    /\ ec_in = [df |-> EmptyDF, col_map |-> <<>>]
    /\ ec_first = ec_in
    /\ ec_cur = ec_in
    /\ ec_calls = 0
    /\ AppParked
    /\ WriteParked
    /\ SearchParked

\* df_fresh, ..., col_map_fresh, _ = load_data(CSV_PATH)
L_load ==
    /\ l_pc = "start"
    /\ LET ld == load_data(file)
       IN  /\ l_loaded' = ld
           /\ l_pc' = IF ld.ok THEN "loaded" ELSE "stopped"
           /\ ec_in' = [df |-> ld.df, col_map |-> ld.col_map]
           /\ ec_first' = ec_in'
           /\ ec_cur' = ec_in'
    /\ UNCHANGED <<file, ec_want, ec_calls, appVars, writeVars, searchVars>>

\* df_fresh, col_map_fresh = ensure_columns(df_fresh, DESIRED_COLS, col_map_fresh)
L_ensure ==
    /\ l_pc = "loaded"
    /\ ec_calls < MaxEnsureCalls
    /\ ec_cur' = ensure_columns(ec_cur.df, ec_want, ec_cur.col_map)
    /\ ec_first' = IF ec_calls = 0 THEN ec_cur' ELSE ec_first
    /\ ec_calls' = ec_calls + 1
    /\ UNCHANGED <<file, ec_want, ec_in, appVars, writeVars, searchVars, loadVars>>

LoadNext ==
    \/ L_load
    \/ L_ensure

SpecLoad == LoadInit /\ [][LoadNext]_vars

\* The columns of the file that equal the desired column d but for case.
OnDisk(d) == {c \in Range(file.header) : Lower(c) = Lower(d)}

\* C17: load_data splits the desired columns in two: those no column of the
\* file equals but for case are missing, in desired order, and nothing else
\* is; the others give resolved_cols, in desired order, one column of the
\* file each.  display_to_actual maps a desired column to that column of the
\* file, and to itself when it is missing.  rename_map has exactly the
\* resolved columns spelled differently from their desired column, each
\* mapped to it.
C17_Resolution ==
    l_pc = "loaded" =>
        LET ld == l_loaded
            present == SelectSeq(DESIRED_COLS, LAMBDA d : OnDisk(d) # {})
        IN  /\ ld.missing = SelectSeq(DESIRED_COLS, LAMBDA d : OnDisk(d) = {})
            /\ Len(ld.resolved_cols) = Len(present)
            /\ \A i \in 1..Len(present) :
                  /\ ld.resolved_cols[i] \in OnDisk(present[i])
                  /\ ld.display_to_actual[present[i]] = ld.resolved_cols[i]
                  /\ ld.resolved_cols[i] \in DOMAIN ld.rename_map
                        <=> ld.resolved_cols[i] # present[i]
                  /\ ld.resolved_cols[i] # present[i]
                        => ld.rename_map[ld.resolved_cols[i]] = present[i]
            /\ \A i \in 1..Len(ld.missing) :
                  /\ ld.display_to_actual[ld.missing[i]] = ld.missing[i]
                  /\ ld.missing[i] \notin Range(ld.resolved_cols)
            /\ DOMAIN ld.display_to_actual = Range(DESIRED_COLS)
            /\ DOMAIN ld.rename_map \subseteq Range(ld.resolved_cols)

\* C17's case: a file with the columns STATE and Company: Notes is missing,
\* state resolves to STATE and is renamed, Company resolves to itself.
C17_Witness ==
    /\ l_pc = "loaded"
    /\ file.header = <<"STATE", "Company">>
    /\ l_loaded.missing = <<"Notes">>
    /\ l_loaded.resolved_cols = <<"Company", "STATE">>
    /\ DOMAIN l_loaded.rename_map = {"STATE"}

\* str.casefold on the column names of the model: as str.lower, but for the
\* sharp s, which casefolds to "ss".
NameCasefold(name) ==
    IF name \in {"Maß", "maß"} THEN "mass" ELSE Lower(name)

\* The column map names columns of the table, and once ensure_columns has
\* run it has an entry for every desired column.
ColumnMapSound(m) ==
    /\ \A key \in DOMAIN m.col_map : m.col_map[key] \in Range(m.df.cols)
    /\ ec_calls >= 1 =>
          \A i \in 1..Len(DESIRED_COLS) : Lower(DESIRED_COLS[i]) \in DOMAIN m.col_map

\* C18 as stated: after load_data and after any number of ensure_columns
\* calls, every key of the column map is the casefolded form of its value,
\* every value is a column of the table, and every desired column has an
\* entry once ensure_columns has run.
C18_ColumnMapCasefolded ==
    l_pc = "loaded" =>
        /\ \A key \in DOMAIN ec_cur.col_map : key = NameCasefold(ec_cur.col_map[key])
        /\ ColumnMapSound(ec_cur)

\* C18 as amended: the same, with every key the lower-case form (str.lower)
\* of its value.
C18_ColumnMapLowered ==
    l_pc = "loaded" =>
        /\ \A key \in DOMAIN ec_cur.col_map : key = Lower(ec_cur.col_map[key])
        /\ ColumnMapSound(ec_cur)

\* C18's case: ensure_columns ran twice on a file with the columns Notes,
\* Company and Maß, and added state.
C18_Witness ==
    /\ l_pc = "loaded"
    /\ ec_calls = 2
    /\ file.header = <<"Notes", "Company", "Maß">>
    /\ ec_cur.df.cols = <<"Notes", "Company", "Maß", "state">>
    /\ DOMAIN ec_cur.col_map = {"notes", "company", "maß", "state"}

\* ================================================================= the search
\* The script from load_data to results (lines 87 to 116), on any file and
\* any query and mode.

SearchCells == {<<>>, <<"a">>, <<" ", "A">>, <<"a", "b">>, <<"N", "A">>}

SearchFiles ==
    {[exists |-> TRUE,
      header |-> h,
      records |-> [k \in 1..n |->
                     [j \in 1..Len(h) |->
                        IF Lower(h[j]) = Lower(SEARCH_COL_NAME)
                        THEN names[k] ELSE <<"a">>]]] :
        h \in {<<"Company", "Extra">>, <<"Extra", "company">>},
        n \in 0..MaxSearchRows,
        names \in [1..MaxSearchRows -> SearchCells]}

Queries == {<<>>, <<"a">>, <<"A", " ">>, <<" ">>, <<".">>, <<"a", ".">>, <<"b">>}

Modes == {"Exact", "Contains"}

SearchInit ==
    /\ file \in SearchFiles
    /\ s_pc = "start"
    /\ s_loaded = LoadFatal
    /\ s_query = <<>>
    /\ s_mode = "Exact"
    /\ s_results = <<>>
    /\ AppParked
    /\ WriteParked
    /\ ColsParked
    /\ LoadParked

\* One script run: the load, the "if not query" stop, the search.
S_run(q, m) ==
    /\ s_pc = "start"
    /\ LET ld == load_data(file)
       IN  /\ s_loaded' = ld
           /\ s_query' = q
           /\ s_mode' = m
           /\ IF ~ld.ok \/ q = <<>>
              THEN /\ s_pc' = "stopped"
                   /\ s_results' = <<>>
              ELSE /\ s_pc' = "shown"
                   /\ s_results' = search(ld.df, ld.search_col, q, m)
    /\ UNCHANGED <<file, appVars, writeVars, colsVars, loadVars>>

SearchNext == \E q \in Queries, m \in Modes : S_run(q, m)

SpecSearch == SearchInit /\ [][SearchNext]_vars

\* Whether needle occurs in hay as a literal substring.
IsSubstring(needle, hay) ==
    \E k \in 1..(Len(hay) + 1) :
        /\ k + Len(needle) - 1 <= Len(hay)
        /\ \A j \in 1..Len(needle) : needle[j] = hay[k + j - 1]

\* The rows C7 says match: in Exact mode the trimmed, casefolded value equals
\* the trimmed, casefolded query; in Contains mode the trimmed, casefolded
\* query is a literal substring of the casefolded value.
C7_Matches(value, q, m) ==
    IF m = "Exact"
    THEN casefold(strip(value)) = casefold(strip(q))
    ELSE IsSubstring(casefold(strip(q)), casefold(value))

\* C7: the search returns exactly the matching rows, in the table's row
\* order, each with its row label.
C7_SearchExactlyMatching ==
    s_pc = "shown" =>
        LET df == s_loaded.df
            labelled == [k \in 1..Len(df.rows) |-> [idx |-> k - 1, row |-> df.rows[k]]]
            matches(r) == C7_Matches(r.row[s_loaded.search_col], s_query, s_mode)
        IN  s_results = SelectSeq(labelled, matches)

\* C8: for a query the "if not query" test lets through, no row whose
\* search-column value is empty is among the results.
C8_EmptyValueNeverMatches ==
    s_pc = "shown" =>
        \A i \in 1..Len(s_results) :
            s_results[i].row[s_loaded.search_col] # <<>>

\* ================================================================ the handlers

\* The value the edit form shows for a desired column: the cell of the chosen
\* row in the cached table, "" when the table lacks the column.
current_val(ld, idx, display_name) ==
    LET actual_col == MapGet(ld.display_to_actual, display_name, display_name)
    IN  IF HasCol(ld.df, actual_col) THEN ld.df.rows[idx + 1][actual_col] ELSE <<>>

\* The mutant of apply_updates: df_fresh[actual_col] = new_val, the value
\* assigned to the whole column instead of the chosen row.
RECURSIVE apply_updates_whole_column(_, _, _, _, _)
apply_updates_whole_column(df, idx, d2a, vals, names) ==
    IF names = <<>> THEN df
    ELSE apply_updates_whole_column(SetCol(df, d2a[Head(names)], vals[Head(names)]),
                                    idx, d2a, vals, Tail(names))

\* The mutant of apply_updates: the chosen row replaced by the form's values,
\* so that a column the form has no field for is left empty in that row.
apply_updates_replace_row(df, idx, d2a, vals, names) ==
    [df EXCEPT !.rows[idx + 1] =
        [c \in DOMAIN @ |->
            IF \E i \in 1..Len(names) : d2a[names[i]] = c
            THEN vals[names[CHOOSE i \in 1..Len(names) : d2a[names[i]] = c]]
            ELSE <<>>]]

\* The mutant of apply_updates: only the fields the user changed are
\* assigned, those whose value is not the one the form showed.
RECURSIVE apply_updates_touched_only(_, _, _, _, _)
apply_updates_touched_only(df, idx, d2a, vals, names) ==
    IF names = <<>> THEN df
    ELSE LET actual_col == d2a[Head(names)]
             with_col == IF HasCol(df, actual_col) THEN df
                         ELSE SetCol(df, actual_col, <<>>)
             touched == vals[Head(names)] # current_val(cache.val, idx, Head(names))
         IN  apply_updates_touched_only(
                 IF touched
                 THEN SetCell(with_col, idx, actual_col, vals[Head(names)])
                 ELSE with_col,
                 idx, d2a, vals, Tail(names))

\* "Apply updates": for every input, create the column if it is still
\* missing, then assign the chosen row's cell.
RECURSIVE apply_updates(_, _, _, _, _)
apply_updates(df, idx, d2a, vals, names) ==
    IF names = <<>> THEN df
    ELSE LET actual_col == d2a[Head(names)]
             with_col == IF HasCol(df, actual_col) THEN df
                         ELSE SetCol(df, actual_col, <<>>)
         IN  apply_updates(SetCell(with_col, idx, actual_col, vals[Head(names)]),
                           idx, d2a, vals, Tail(names))

\* The mutant of is_duplicate: the comparison without str.strip() on the
\* column.
is_duplicate_unstripped(df, search_col, new_company) ==
    \E k \in 1..Len(df.rows) :
        casefold(df.rows[k][search_col]) = casefold(new_company)

\* Another mutant of is_duplicate: the comparison without str.casefold().
is_duplicate_case_sensitive(df, search_col, new_company) ==
    \E k \in 1..Len(df.rows) :
        strip(df.rows[k][search_col]) = new_company

\* dup_mask.any(): some row's search column equals the new company, both
\* trimmed and casefolded.
is_duplicate(df, search_col, new_company) ==
    \E k \in 1..Len(df.rows) :
        casefold(strip(df.rows[k][search_col])) = casefold(new_company)

\* The mutant of new_row_of: new_row[display_name] = val, the inputs stored
\* under their display names instead of their actual columns.
new_row_of_display_names(df, d2a, vals) ==
    [c \in Range(df.cols) \cup Range(DESIRED_COLS) |->
        IF c \in Range(DESIRED_COLS) THEN vals[c] ELSE <<>>]

\* new_row: "" for every column of the table, then the inputs under their
\* actual columns (a key the table lacks is a new key of the dict).
new_row_of(df, d2a, vals) ==
    [c \in Range(df.cols) \cup {d2a[d] : d \in Range(DESIRED_COLS)} |->
        IF \E d \in Range(DESIRED_COLS) : d2a[d] = c
        THEN LET last == CHOOSE i \in 1..Len(DESIRED_COLS) :
                            /\ d2a[DESIRED_COLS[i]] = c
                            /\ \A j \in (i + 1)..Len(DESIRED_COLS) :
                                  d2a[DESIRED_COLS[j]] # c
             IN  vals[DESIRED_COLS[last]]
        ELSE <<>>]

\* The keys of new_row the table has no column for, in the order of insertion.
new_keys(df, d2a) ==
    LET actuals == [i \in 1..Len(DESIRED_COLS) |-> d2a[DESIRED_COLS[i]]]
    IN  SelectSeq(actuals, LAMBDA c : ~HasCol(df, c))

\* The mutant of concat_row: pd.concat([new, df_fresh]), the new row first.
concat_row_first(df, row, extra) ==
    LET cols == df.cols \o extra
    IN  [cols |-> cols,
         rows |-> <<row>> \o
                  [k \in 1..Len(df.rows) |->
                     [c \in Range(cols) |->
                        IF HasCol(df, c) THEN df.rows[k][c] ELSE <<>>]]]

\* pd.concat([df_fresh, pd.DataFrame([new_row])], ignore_index=True); a cell
\* the old rows have no value for is written as the empty field.
concat_row(df, row, extra) ==
    LET cols == df.cols \o extra
    IN  [cols |-> cols,
         rows |-> [k \in 1..Len(df.rows) |->
                     [c \in Range(cols) |->
                        IF HasCol(df, c) THEN df.rows[k][c] ELSE <<>>]]
                  \o <<row>>]

\* ============================================================ the application
\* One session of the script against the file, and the other programs that
\* write the file (another instance of the tool, a manual edit), which show
\* only through the file.  A script run is one step up to its reload of the
\* file; the replace of atomic_write_csv is a step of its own, so that what
\* other writers do between a handler's reload and its write shows.

InitCompanies == {<<"a">>, <<" ", "A">>}

Filler == <<"b">>

\* The files the application starts from: all desired columns present; the
\* search column spelled differently and two desired columns missing; no
\* search column at all.
AppHeaders ==
    {<<"Company", "state", "Notes">>, <<"company", "Extra">>, <<"Extra", "State">>}

AppFiles ==
    {[exists |-> TRUE,
      header |-> h,
      records |-> [k \in 1..n |->
                     [j \in 1..Len(h) |->
                        IF Lower(h[j]) = Lower(SEARCH_COL_NAME)
                        THEN names[k] ELSE Filler]]] :
        h \in AppHeaders, n \in 0..MaxRows, names \in [1..MaxRows -> InitCompanies]}

AppQueries == {<<>>, <<"a">>, <<" ">>}

\* What the user types into a field of a form.
TypedVals(display_name) ==
    CASE display_name = "Company" -> {<<"a">>, <<" ", "A">>}
      [] display_name = "state" -> {<<"b">>}
      [] OTHER -> {}

Init ==
    /\ file \in AppFiles
    /\ AppParked
    /\ WriteParked
    /\ ColsParked
    /\ SearchParked
    /\ LoadParked

\* load_data(CSV_PATH) through st.cache_data: the cached value, else a read
\* of the file.
cached_load == IF cache.valid THEN cache.val ELSE load_data(file)

\* The mutant of reload: load_data(CSV_PATH) without the clear before it.
reload_without_clear == cached_load

\* st.cache_data.clear(); load_data(CSV_PATH) in a handler: a read of the file.
reload == load_data(file)

\* What st.cache_data holds after a call that returned ld: a call that
\* stopped the session stores nothing.
cache_after(ld) == IF ld.ok THEN [valid |-> TRUE, val |-> ld] ELSE NoCache

\* A script run with no form submitted: the user set the query and the mode,
\* and chose a record when several matched.  The messages and the form
\* values of the run before are gone.
Run(q, m) ==
    /\ pc \in {"start", "ready"}
    /\ LET ld == cached_load
           found == search(ld.df, ld.search_col, q, m)
       IN  /\ cache' = cache_after(ld)
           /\ query' = q
           /\ IF ~ld.ok \/ q = <<>>
              THEN /\ pc' = "start"
                   /\ chosen_idx' = -1
              ELSE /\ pc' = "ready"
                   /\ IF found = <<>>
                      THEN chosen_idx' = -1
                      ELSE \E i \in 1..Len(found) : chosen_idx' = found[i].idx
    /\ op' = "none"
    /\ inputs' = NoInputs
    /\ enforce' = FALSE
    /\ fresh' = LoadFatal
    /\ df_fresh' = EmptyDF
    /\ outcome' = "none"
    /\ row_deleted' = FALSE
    /\ UNCHANGED <<file, last_writer, n_ops, other_wrote, other_change, writeVars, colsVars, searchVars, loadVars>>

\* The handler stopped: what the session shows and holds afterwards.
Stopped(how, kind, vals, eu, ld) ==
    /\ pc' = "start"
    /\ op' = kind
    /\ inputs' = vals
    /\ enforce' = eu
    /\ fresh' = ld
    /\ df_fresh' = EmptyDF
    /\ outcome' = how

\* The handler built its table and is about to call atomic_write_csv.
Built(df, kind, vals, eu, ld) ==
    /\ pc' = "write"
    /\ op' = kind
    /\ inputs' = vals
    /\ enforce' = eu
    /\ fresh' = ld
    /\ df_fresh' = df
    /\ outcome' = "none"

\* The forms with a Company of companies, a state of states, a Notes of notes.
Forms(companies, states, notes) ==
    {[d \in Range(DESIRED_COLS) |->
        CASE d = "Company" -> c [] d = "state" -> st [] OTHER -> n] :
        c \in companies, st \in states, n \in notes}

\* The edit form: every field holds the value shown or a typed one.
EditForms ==
    LET allowed(d) == TypedVals(d) \cup {current_val(cache.val, chosen_idx, d)}
    IN  Forms(allowed("Company"), allowed("state"), allowed("Notes"))

\* The create form: every field holds its default (the trimmed query for
\* Company, "" for the others) or a typed value.
CreateForms ==
    LET allowed(d) == TypedVals(d) \cup
                      {IF d = "Company" THEN strip(query) ELSE <<>>}
    IN  Forms(allowed("Company"), allowed("state"), allowed("Notes"))

\* "Save changes": the form's values are the shown ones or typed ones; the
\* handler reloads, ensures the columns, checks the row label and applies the
\* values.
SubmitEdit ==
    /\ pc = "ready"
    /\ chosen_idx >= 0
    /\ n_ops < MaxOps
    /\ \E vals \in EditForms :
       LET ld == reload
           ensured == ensure_columns(ld.df, DESIRED_COLS, ld.col_map)
           display_to_actual_fresh == DisplayToActual(ensured.col_map)
       IN  /\ cache' = cache_after(ld)
           /\ IF ~ld.ok
              THEN Stopped("fatal", "edit", vals, FALSE, ld)
              ELSE IF ~InIndex(ensured.df, chosen_idx)
              THEN Stopped("stale", "edit", vals, FALSE, ld)
              ELSE Built(apply_updates(ensured.df, chosen_idx,
                                       display_to_actual_fresh, vals, DESIRED_COLS),
                         "edit", vals, FALSE, ld)
    /\ n_ops' = n_ops + 1
    /\ UNCHANGED <<file, last_writer, query, chosen_idx, row_deleted, other_wrote, other_change,
                   writeVars, colsVars, searchVars, loadVars>>

\* The create handler: it reloads, ensures the columns, checks for a
\* duplicate when asked to, and appends the new row.
CreateHandler ==
    /\ pc = "ready"
    /\ \E vals \in CreateForms, eu \in BOOLEAN :
       LET ld == reload
           ensured == ensure_columns(ld.df, DESIRED_COLS, ld.col_map)
           display_to_actual_fresh == DisplayToActual(ensured.col_map)
           new_company == strip(vals["Company"])
       IN  /\ ld.ok => Len(ld.df.rows) < MaxRows
           /\ cache' = cache_after(ld)
           /\ IF ~ld.ok
              THEN Stopped("fatal", "create", vals, eu, ld)
              ELSE IF /\ eu
                      /\ new_company # <<>>
                      /\ is_duplicate(ensured.df, ld.search_col, new_company)
              THEN Stopped("duplicate", "create", vals, eu, ld)
              ELSE Built(concat_row(ensured.df,
                                    new_row_of(ensured.df, display_to_actual_fresh, vals),
                                    new_keys(ensured.df, display_to_actual_fresh)),
                         "create", vals, eu, ld)
    /\ UNCHANGED <<file, last_writer, query, chosen_idx, row_deleted, other_wrote, other_change,
                   writeVars, colsVars, searchVars, loadVars>>

\* "Create record" pressed, as one of the forms of a run of the model.
SubmitCreate ==
    /\ n_ops < MaxOps
    /\ CreateHandler
    /\ n_ops' = n_ops + 1

\* atomic_write_csv(CSV_PATH, df_fresh) returns: the file is replaced; then
\* st.success, st.cache_data.clear() and st.rerun().
Write ==
    /\ pc = "write"
    /\ file' = to_csv(df_fresh)
    /\ last_writer' = "session"
    /\ cache' = NoCache
    /\ pc' = "start"
    /\ outcome' = IF op = "edit" THEN "saved" ELSE "created"
    /\ UNCHANGED <<query, chosen_idx, op, inputs, enforce, fresh,
                   df_fresh, row_deleted, n_ops, other_wrote, other_change, writeVars, colsVars, searchVars, loadVars>>

\* atomic_write_csv raises: the file stays, the script run ends in the error.
WriteFails ==
    /\ pc = "write"
    /\ pc' = "start"
    /\ outcome' = "io_error"
    /\ UNCHANGED <<file, last_writer, cache, query, chosen_idx, op,
                   inputs, enforce, fresh, df_fresh, row_deleted, n_ops,
                   other_wrote, other_change, writeVars, colsVars, searchVars, loadVars>>

\* Another program rewrites the file without one of its rows.  The other
\* programs write once in a run of the model.
OtherDeleteRow ==
    /\ file.exists
    /\ ~other_wrote
    /\ \E k \in 1..Len(file.records) :
          file' = [file EXCEPT !.records =
                      SubSeq(file.records, 1, k - 1)
                      \o SubSeq(file.records, k + 1, Len(file.records))]
    /\ last_writer' = "other"
    /\ row_deleted' = (row_deleted \/ (pc = "ready" /\ chosen_idx >= 0))
    /\ other_wrote' = TRUE
    /\ UNCHANGED <<other_change, cache, pc, query, chosen_idx, op, inputs, enforce, fresh,
                   df_fresh, outcome, n_ops, writeVars, colsVars, searchVars, loadVars>>

Next ==
    \/ \E q \in AppQueries, m \in Modes : Run(q, m)
    \/ SubmitEdit
    \/ SubmitCreate
    \/ Write
    \/ WriteFails
    \/ OtherDeleteRow

Spec == Init /\ [][Next]_vars

\* ------------------------------------------------------------- two writers
\* The session and another writer that commits a change of one cell: while
\* the session shows its results, before the first form is submitted, or
\* between a handler's reload and its write.

\* The value the other writer puts into a cell; no file of the model holds it.
OtherVal == <<"A">>

\* Another program replaces the file by one with one field changed.
OtherSetCell ==
    /\ file.exists
    /\ ~other_wrote
    /\ pc = "write" \/ (pc = "ready" /\ n_ops = 0)
    /\ \E k \in 1..Len(file.records), j \in 1..Len(file.header) :
          /\ file' = [file EXCEPT !.records[k][j] = OtherVal]
          /\ other_change' =
                [at |-> IF pc = "write" THEN "between" ELSE "before",
                 k |-> k, c |-> file.header[j], v |-> OtherVal,
                 cached |-> cache.valid]
    /\ last_writer' = "other"
    /\ other_wrote' = TRUE
    /\ UNCHANGED <<cache, pc, query, chosen_idx, op, inputs, enforce, fresh,
                   df_fresh, outcome, row_deleted, n_ops, writeVars, colsVars,
                   searchVars, loadVars>>

RaceNext ==
    \/ \E q \in AppQueries, m \in Modes : Run(q, m)
    \/ SubmitEdit
    \/ SubmitCreate
    \/ Write
    \/ WriteFails
    \/ OtherSetCell

SpecRace == Init /\ [][RaceNext]_vars

\* --------------------------------------------------------- creates in a row
\* One session, no other writer: create after create, each with
\* enforce_unique set, from a file in which no Company occurs twice.

\* The Company values of a file: trimmed and casefolded.
CompanyKeys(doc) ==
    LET j == CHOOSE i \in 1..Len(doc.header) :
                /\ Lower(doc.header[i]) = Lower(SEARCH_COL_NAME)
                /\ \A x \in (i + 1)..Len(doc.header) :
                      Lower(doc.header[x]) # Lower(SEARCH_COL_NAME)
    IN  [k \in 1..Len(doc.records) |-> casefold(strip(doc.records[k][j]))]

\* No two rows have the same Company, trimmed and casefolded, unless it is
\* empty.
UniqueCompanies(doc) ==
    LET keys == CompanyKeys(doc)
    IN  \A k1, k2 \in 1..Len(keys) :
            (k1 # k2 /\ keys[k1] # <<>>) => keys[k1] # keys[k2]

CreatesCompanies == {<<>>, <<"a">>, <<" ", "A">>, <<"b">>}

CreatesFiles ==
    {doc \in UNION {{[exists |-> TRUE,
                      header |-> h,
                      records |-> [k \in 1..n |->
                                     [j \in 1..Len(h) |->
                                        IF Lower(h[j]) = Lower(SEARCH_COL_NAME)
                                        THEN names[k] ELSE Filler]]] :
                        names \in [1..n -> CreatesCompanies]} :
                    h \in {<<"Company", "state", "Notes">>, <<"company", "Extra">>},
                    n \in 0..(MaxRows - 1)} :
        UniqueCompanies(doc)}

CreatesInit ==
    /\ file \in CreatesFiles
    /\ AppParked
    /\ WriteParked
    /\ ColsParked
    /\ SearchParked
    /\ LoadParked

\* "Create record" with the checkbox left as it is shown, set.
CreateEnforced ==
    /\ CreateHandler
    /\ enforce'
    /\ UNCHANGED n_ops

CreatesNext ==
    \/ \E q \in AppQueries, m \in Modes : Run(q, m)
    \/ CreateEnforced
    \/ Write
    \/ WriteFails

SpecCreates == CreatesInit /\ [][CreatesNext]_vars

\* ------------------------------------------------- claims on the application

\* The field of the file's k-th record under the header name c.
FileCell(k, c) ==
    file.records[k][CHOOSE j \in 1..Len(file.header) : file.header[j] = c]

\* The session's handler wrote the file, and nobody wrote it since.
JustWritten == last_writer = "session" /\ outcome \in {"saved", "created"}

\* No column of cols equals the desired column d but for case.
NoMatch(d, cols) == \A i \in 1..Len(cols) : Lower(cols[i]) # Lower(d)

\* C2: an edit submitted after a row was deleted from the file since the
\* record was selected ends with "record no longer exists" and writes nothing.
C2_StaleEditRejected ==
    (op = "edit" /\ row_deleted) => (outcome = "stale" /\ pc # "write")

\* The supplied Company, trimmed, is not empty and equals, casefolded, the
\* trimmed search-column value of a row of the reloaded table.
C3_IsDuplicate ==
    LET new_company == strip(inputs["Company"])
    IN  /\ new_company # <<>>
        /\ \E k \in 1..Len(fresh.df.rows) :
              casefold(strip(fresh.df.rows[k][fresh.search_col])) = casefold(new_company)

C3_State ==
    (op = "create" /\ fresh.ok /\ C3_IsDuplicate) =>
        IF enforce
        THEN outcome = "duplicate" /\ pc = "start" /\ df_fresh = EmptyDF
        ELSE /\ outcome # "duplicate"
             /\ Len(df_fresh.rows) = Len(fresh.df.rows) + 1

C3_NoWrite ==
    (outcome' = "duplicate" /\ outcome # "duplicate") => file' = file

\* C3: a create whose Company, trimmed, is not empty and matches a row of the
\* reloaded table (trimmed, casefolded) ends in the duplicate condition with
\* no row appended and the file not written when enforce_unique is set, and
\* appends the row when it is not set.
C3_DuplicateRejected == [](C3_State) /\ [][C3_NoWrite]_vars

\* C3's case: "a" is refused because the file holds " A".
C3_Witness ==
    /\ op = "create"
    /\ enforce
    /\ outcome = "duplicate"
    /\ inputs["Company"] = <<"a">>
    /\ \A k \in 1..Len(fresh.df.rows) :
          fresh.df.rows[k][fresh.search_col] = <<" ", "A">>

\* C4 as stated: a desired column with no match in the file is in missing,
\* and after a successful edit or create it is in the file and holds "" in
\* every row that was there at the reload.
C4_HealedEmptyEverywhere ==
    JustWritten =>
        \A i \in 1..Len(DESIRED_COLS) :
            LET d == DESIRED_COLS[i]
            IN  NoMatch(d, fresh.df.cols) =>
                   /\ d \in Range(fresh.missing)
                   /\ d \in Range(file.header)
                   /\ \A k \in 1..Len(fresh.df.rows) : FileCell(k, d) = <<>>

\* C4 as amended: the same, but the row an edit changed holds the value
\* submitted for the column.
C4_Healed ==
    JustWritten =>
        \A i \in 1..Len(DESIRED_COLS) :
            LET d == DESIRED_COLS[i]
            IN  NoMatch(d, fresh.df.cols) =>
                   /\ d \in Range(fresh.missing)
                   /\ d \in Range(file.header)
                   /\ \A k \in 1..Len(fresh.df.rows) :
                         FileCell(k, d) = IF op = "edit" /\ k = chosen_idx + 1
                                          THEN inputs[d] ELSE <<>>

\* C4's case: an edit of one of two rows typed a value into a missing column.
C4_Witness ==
    /\ JustWritten
    /\ op = "edit"
    /\ Len(fresh.df.rows) = 2
    /\ NoMatch("state", fresh.df.cols)
    /\ inputs["state"] = <<"b">>

\* C5: after a successful edit or create the file's columns are those of the
\* reload, in their order, followed by the desired columns that were missing.
C5_NoColumnDropped ==
    JustWritten => file.header = fresh.df.cols \o fresh.missing

\* C5's case: the file had a column that is not desired, and two were missing.
C5_Witness ==
    /\ JustWritten
    /\ "Extra" \in Range(fresh.df.cols)
    /\ Len(fresh.missing) = 2

\* C6: after a successful create the file has one row more than the reload,
\* the rows of the reload are where they were with the values they had, and
\* the last row is the new one.
C6_AppendOnly ==
    (JustWritten /\ op = "create") =>
        LET n == Len(fresh.df.rows)
        IN  /\ Len(file.records) = n + 1
            /\ \A k \in 1..n : \A c \in Range(fresh.df.cols) :
                  FileCell(k, c) = fresh.df.rows[k][c]
            /\ \A i \in 1..Len(DESIRED_COLS) :
                  FileCell(n + 1, MapGet(fresh.col_map, Lower(DESIRED_COLS[i]),
                                         DESIRED_COLS[i]))
                     = inputs[DESIRED_COLS[i]]

\* C6's case: a row was appended to a file that had one.
C6_Witness ==
    /\ JustWritten
    /\ op = "create"
    /\ Len(fresh.df.rows) >= 1
    /\ inputs["Company"] # fresh.df.rows[1][fresh.search_col]

\* The actual column of some desired column, by the column map of the reload.
IsDesiredActual(c) ==
    \E i \in 1..Len(DESIRED_COLS) :
        MapGet(fresh.col_map, Lower(DESIRED_COLS[i]), DESIRED_COLS[i]) = c

\* The table handed to atomic_write_csv is the reloaded table but for the
\* cells the handler assigns; and after a write of the session that nobody
\* wrote over, a load by the session gives what the file holds.
C12_State ==
    /\ pc = "write" =>
          /\ fresh.ok
          /\ Len(df_fresh.rows) =
                Len(fresh.df.rows) + (IF op = "create" THEN 1 ELSE 0)
          /\ \A k \in 1..Len(fresh.df.rows) : \A c \in Range(fresh.df.cols) :
                \/ op = "edit" /\ k = chosen_idx + 1 /\ IsDesiredActual(c)
                \/ df_fresh.rows[k][c] = fresh.df.rows[k][c]
    /\ last_writer = "session" => cached_load = load_data(file)

\* A submitted form makes the handler read the file, whatever the cache
\* holds; a write that succeeded leaves the cache empty.
C12_Step ==
    /\ n_ops' # n_ops =>
          /\ fresh' = load_data(file)
          /\ cache' = cache_after(load_data(file))
    /\ (pc = "write" /\ outcome' \in {"saved", "created"}) =>
          /\ file' = to_csv(df_fresh)
          /\ ~cache'.valid

\* C12: every edit and every create clears the cache and reloads the file
\* before anything else, so the table it changes and writes comes from the
\* file as it was at the reload; and after every successful write the cache
\* is cleared again, so the session's next load gives what was written.
C12_ReloadDiscipline == [](C12_State) /\ [][C12_Step]_vars

\* C12's case: the cached table was out of date when the edit was submitted
\* (a row had left the file since it was cached), and the edit was written.
C12_Witness ==
    /\ JustWritten
    /\ op = "edit"
    /\ row_deleted
    /\ Len(file.records) = Len(fresh.df.rows)
    /\ ~cache.valid

\* The session's operation assigns the cell the other writer changed: it is
\* an edit of that row, and the column is the actual column of a desired one.
AssignsOtherCell ==
    /\ op = "edit"
    /\ other_change.k = chosen_idx + 1
    /\ IsDesiredActual(other_change.c)

\* C13: with the reload before the write and no lock, a change another writer
\* commits between the session's reload and its write is gone from the file
\* after the session's write, though both reported success; a change
\* committed before the reload is still in the file, in the rows and columns
\* the session's operation does not assign.
C13_LostUpdate ==
    (JustWritten /\ n_ops = 1 /\ ~AssignsOtherCell) =>
        /\ other_change.at = "before" =>
               FileCell(other_change.k, other_change.c) = other_change.v
        /\ other_change.at = "between" =>
               /\ FileCell(other_change.k, other_change.c)
                     = fresh.df.rows[other_change.k][other_change.c]
               /\ FileCell(other_change.k, other_change.c) # other_change.v

\* C13's case: the other writer changed a cell of another row than the one
\* the session edits, after the session's reload; the session saved, and the
\* cell holds what it held at the reload.
C13_Witness ==
    /\ JustWritten
    /\ op = "edit"
    /\ other_change.at = "between"
    /\ other_change.k # chosen_idx + 1
    /\ FileCell(other_change.k, other_change.c) # other_change.v

C14_State ==
    (op = "edit" /\ fresh.ok /\ chosen_idx >= Len(fresh.df.rows)) =>
        /\ outcome = "stale"
        /\ pc = "start"
        /\ df_fresh = EmptyDF

C14_NoWrite ==
    (outcome' = "stale" /\ outcome # "stale") => file' = file

\* C14: an edit whose row label is not in the index of the reloaded table
\* ends with "record no longer exists": no table is built, atomic_write_csv
\* is not called and the file stays as it was at the reload, also when
\* ensure_columns added columns in memory.
C14_StaleStops == [](C14_State) /\ [][C14_NoWrite]_vars

\* C14's case: the chosen row fell off the end of a file that lacks two
\* desired columns; the edit stopped and the file has the columns it had.
C14_Witness ==
    /\ op = "edit"
    /\ outcome = "stale"
    /\ chosen_idx >= Len(fresh.df.rows)
    /\ Len(fresh.missing) = 2
    /\ file.header = fresh.df.cols
    /\ Len(file.records) = Len(fresh.df.rows)

\* C15: after a successful edit the file has the rows of the reload; every
\* other row holds, in every column of the reload, the value it had at the
\* reload, and so does the edited row in every column that is not the actual
\* column of a desired column.
C15_EditFrame ==
    (JustWritten /\ op = "edit") =>
        /\ Len(file.records) = Len(fresh.df.rows)
        /\ \A k \in 1..Len(fresh.df.rows) : \A c \in Range(fresh.df.cols) :
              (k # chosen_idx + 1 \/ ~IsDesiredActual(c)) =>
                  FileCell(k, c) = fresh.df.rows[k][c]

\* C15's case: one of two rows was edited to another Company, in a file with
\* a column that is not desired.
C15_Witness ==
    /\ JustWritten
    /\ op = "edit"
    /\ Len(fresh.df.rows) = 2
    /\ "Extra" \in Range(fresh.df.cols)
    /\ inputs["Company"] # fresh.df.rows[chosen_idx + 1][fresh.search_col]
    /\ FileCell(chosen_idx + 1, fresh.search_col) = inputs["Company"]

\* C16: after a successful create the last record of the file has one field
\* for every column the table has after ensure_columns and for no other; the
\* field under the actual column of a desired column is the value supplied
\* for it, and every other field is empty.
C16_NewRow ==
    (JustWritten /\ op = "create") =>
        LET n == Len(fresh.df.rows)
            schema == ensure_columns(fresh.df, DESIRED_COLS, fresh.col_map).df.cols
        IN  /\ file.header = schema
            /\ Len(file.records) = n + 1
            /\ Len(file.records[n + 1]) = Len(schema)
            /\ \A j \in 1..Len(schema) :
                  LET of_desired ==
                        {d \in Range(DESIRED_COLS) :
                            MapGet(fresh.col_map, Lower(d), d) = schema[j]}
                  IN  IF of_desired = {}
                      THEN file.records[n + 1][j] = <<>>
                      ELSE \A d \in of_desired : file.records[n + 1][j] = inputs[d]

\* C16's case: a row with a state was created in a file whose search column
\* is spelled "company", which has a column that is not desired and lacks
\* two desired ones.
C16_Witness ==
    /\ JustWritten
    /\ op = "create"
    /\ file.header = <<"company", "Extra", "state", "Notes">>
    /\ inputs["state"] = <<"b">>
    /\ inputs["Company"] # <<>>
    /\ file.records[Len(file.records)] =
          <<inputs["Company"], <<>>, inputs["state"], inputs["Notes"]>>

\* C19: after a successful edit the edited row holds, under the actual
\* column of every desired column, the value the form submitted, whatever
\* the reload held there; so a change another writer committed to such a
\* cell after the table was cached, before the form was submitted, is
\* replaced by the form's value, which is the cached one when the user left
\* the field alone.
C19_FormWins ==
    (JustWritten /\ op = "edit") =>
        /\ \A i \in 1..Len(DESIRED_COLS) :
              FileCell(chosen_idx + 1,
                       MapGet(fresh.col_map, Lower(DESIRED_COLS[i]), DESIRED_COLS[i]))
                 = inputs[DESIRED_COLS[i]]
        /\ (n_ops = 1 /\ other_change.at = "before" /\ other_change.cached
               /\ AssignsOtherCell) =>
              FileCell(other_change.k, other_change.c) # other_change.v

\* C19's case: the other writer changed Notes of the chosen row after it was
\* cached; the reload held the new value; the form held the cached value in
\* a field the user cannot have typed into, and that is what the file holds.
C19_Witness ==
    /\ JustWritten
    /\ op = "edit"
    /\ other_change.at = "before"
    /\ other_change.k = chosen_idx + 1
    /\ other_change.c = "Notes"
    /\ fresh.df.rows[chosen_idx + 1]["Notes"] = other_change.v
    /\ inputs["Notes"] = Filler
    /\ FileCell(chosen_idx + 1, "Notes") = Filler

\* C20: with one writer and every create made with enforce_unique set, a
\* file in which no non-empty Company (trimmed, casefolded) occurs twice
\* stays such a file; and a create whose Company is empty after trimming is
\* never refused as a duplicate.
C20_UniqueKept ==
    /\ UniqueCompanies(file)
    /\ (op = "create" /\ strip(inputs["Company"]) = <<>>) => outcome # "duplicate"

\* C20's case: a Company was added to a file that held another one.
C20_Witness ==
    /\ JustWritten
    /\ op = "create"
    /\ enforce
    /\ Len(file.records) = 2
    /\ CompanyKeys(file) = << <<"b">>, <<"a">> >>

====
